---------------------------- MODULE Spec2Model ----------------------------
(***************************************************************************)
(* Cubic regularization of Newton's method (src/src/cubic_reg.py).         *)
(*                                                                         *)
(* The model follows one CubicRegularization object from its construction  *)
(* (Algorithm.__init__ and _check_inputs) through its cubic_reg() calls:   *)
(* the outer loop of cubic_reg, the inner search of _find_x_new and the    *)
(* return statements of _AuxiliaryProblem.solve.                           *)
(*                                                                         *)
(* Numbers.  The problem is one-dimensional (n = 1) and every quantity is  *)
(* an integer: a point x, the objective value f(x), the gradient g, the    *)
(* Hessian h (a 1x1 matrix, whose only eigenvalue is h itself) and the     *)
(* weight mk.  The acceptance test of _find_x_new is compared after        *)
(* multiplication by 6, which keeps 0.5*h*s^2 and mk/6*|s|^3 integral.     *)
(* The step the auxiliary solver returns is the result of floating-point   *)
(* linear algebra; the model draws it from the grid -MaxStep..MaxStep,     *)
(* keeping what the code fixes exactly (the zero step of a failed          *)
(* Cholesky factorization, the zero step at g = 0, the unit eigenvector,   *)
(* the descent direction s*g <= 0), and records each answer in memo so     *)
(* that the solver is a function of its arguments, as the code is.         *)
(***************************************************************************)
EXTENDS Integers, Sequences, FiniteSets, TLC

VARIABLES
    cfg,                     \* the arguments given to CubicRegularization(...)
    pc,                      \* where the object / the running call is
    err,                     \* the exception that ended construction or a call
    L0,                      \* self.L0 (None, or a number)
    grad_x,                  \* self.grad_x
    hess_x,                  \* self.hess_x
    lambda_nplus,            \* self.lambda_nplus
    iter,                    \* cubic_reg: iter
    flag,                    \* cubic_reg: flag
    converged,               \* cubic_reg: converged
    x_new,                   \* cubic_reg: x_new
    x_old,                   \* cubic_reg: x_old
    mk,                      \* cubic_reg / _find_x_new: mk
    intermediate_points,     \* cubic_reg: intermediate_points (the trace)
    intermediate_hess_cond,  \* cubic_reg: intermediate_hess_cond
    in_iter,                 \* _find_x_new: iter (shadows the parameter)
    in_x_new,                \* _find_x_new: x_new
    in_flag,                 \* _find_x_new: flag
    in_hess_cond,            \* _find_x_new: hess_cond
    upper_approximation,     \* _find_x_new: upper_approximation
    runs,                    \* number of cubic_reg() calls made on the object
    calls,                   \* aux_problem.solve() calls made by the current call
    entered,                 \* outer loop bodies entered by the current call
    warnings,                \* RuntimeWarnings printed by the current call
    memo,                    \* the answers solve() has given, by its arguments
    results,                 \* the tuples returned by the calls so far
    aux_in,                  \* _AuxiliaryProblem: the constructor's arguments
    aux_pc,                  \* _AuxiliaryProblem.solve: where the call is
    aux_lambda_const,        \* _AuxiliaryProblem: self.lambda_const
    aux_lambduh,             \* solve: lambduh
    aux_s,                   \* solve: s
    aux_L,                   \* solve: L, kept as the matrix L^T L it factorizes
    aux_iter,                \* solve: iter, the Newton updates of lambduh
    aux_retry,               \* _compute_s: what the nested retry met
    aux_ret,                 \* solve: the tuple returned, or the exception
    aux_log                  \* the solver calls finished before this one

driverVars ==
    <<cfg, pc, err, L0, grad_x, hess_x, lambda_nplus, iter, flag, converged,
      x_new, x_old, mk, intermediate_points, intermediate_hess_cond,
      in_iter, in_x_new, in_flag, in_hess_cond, upper_approximation,
      runs, calls, entered, warnings, memo, results>>

auxVars == <<aux_in, aux_pc, aux_lambda_const, aux_lambduh, aux_s, aux_L,
             aux_iter, aux_retry, aux_ret, aux_log>>

vars == <<driverVars, auxVars>>

selfVars == <<L0, grad_x, hess_x, lambda_nplus>>
callVars == <<iter, flag, converged, x_new, x_old, mk, intermediate_points,
              intermediate_hess_cond>>
innerVars == <<in_iter, in_x_new, in_flag, in_hess_cond, upper_approximation>>

---------------------------------------------------------------------------
(* Bounds of the model *)

MaxIter == 2      \* largest maxiter tried
MaxSub == 3       \* largest submaxiter tried
MaxStep == 2      \* largest |s| the auxiliary solver returns
MaxRuns == 2      \* cubic_reg() calls made on one object
MaxSolves == 3    \* solver calls followed one after the other

---------------------------------------------------------------------------
(* Values *)

None == <<>>
Some(v) == <<v>>
Val(o) == o[1]

Abs(v) == IF v < 0 THEN -v ELSE v
Max(a, b) == IF a >= b THEN a ELSE b
Last(seq) == seq[Len(seq)]

RECURSIVE Pow2(_)
Pow2(n) == IF n <= 0 THEN 1 ELSE 2 * Pow2(n - 1)

IsPrefix(a, b) == Len(a) <= Len(b) /\ \A i \in 1..Len(a) : a[i] = b[i]

(* Strings that the code transforms are sequences of characters. *)
UpperCase == <<"A", "B", "C", "D", "E", "F", "G", "H", "I", "J", "K", "L", "M",
               "N", "O", "P", "Q", "R", "S", "T", "U", "V", "W", "X", "Y", "Z">>
LowerCase == <<"a", "b", "c", "d", "e", "f", "g", "h", "i", "j", "k", "l", "m",
               "n", "o", "p", "q", "r", "s", "t", "u", "v", "w", "x", "y", "z">>

LowerChar(c) ==
    IF \E i \in DOMAIN UpperCase : UpperCase[i] = c
    THEN LowerCase[CHOOSE i \in DOMAIN UpperCase : UpperCase[i] = c]
    ELSE c

\* str.lower()
lower(str) == [i \in DOMAIN str |-> LowerChar(str[i])]

str_function == <<"f", "u", "n", "c", "t", "i", "o", "n">>
str_gradient == <<"g", "r", "a", "d", "i", "e", "n", "t">>
str_decrement == <<"d", "e", "c", "r", "e", "m", "e", "n", "t">>
str_Gradient == <<"G", "r", "a", "d", "i", "e", "n", "t">>
str_newton == <<"n", "e", "w", "t", "o", "n">>

CriterionNames == {str_function, str_gradient, str_decrement}
MethodNames == {"trust_region", "monotone_norm"}

---------------------------------------------------------------------------
(* The objective handed to the constructor: f, gradient, hessian *)

F(x) ==
    IF cfg.obj = "quadratic" THEN x * x
    ELSE x * x * x - 3 * x

AnalyticGradient(x) ==
    IF cfg.obj = "quadratic" THEN 2 * x
    ELSE 3 * x * x - 3

AnalyticHessian(x) ==
    IF cfg.obj = "quadratic" THEN 2
    ELSE 6 * x

\* Algorithm.approx_grad: central difference of f (exact division for these f)
approx_grad(x) ==
    (F(x + cfg.epsilon) - F(x - cfg.epsilon)) \div (2 * cfg.epsilon)

\* self.gradient after __init__
Gradient(x) ==
    IF cfg.has_gradient THEN AnalyticGradient(x) ELSE approx_grad(x)

\* Algorithm.approx_hess: forward difference of self.gradient
approx_hess(x) ==
    (Gradient(x + cfg.epsilon) - Gradient(x)) \div cfg.epsilon

\* self.hessian after __init__
Hessian(x) ==
    IF cfg.has_hessian THEN AnalyticHessian(x) ELSE approx_hess(x)

\* Algorithm._compute_lambda_nplus: max(-lambda_min(H), 0), n = 1
_compute_lambda_nplus(h) == Max(-h, 0)

---------------------------------------------------------------------------
(* Construction *)

\* _check_inputs with line 84 written without "self.maxiter > 0"
_check_inputs_maxiter_unchecked(c) ==
    IF Len(c.x0) < 1 THEN "ValueError: x0 must have length > 0"
    ELSE IF ~(c.has_f \/ (c.has_gradient /\ c.has_hessian))
    THEN "AttributeError: You must specify f and/or each of the following"
    ELSE IF ~(  (c.L0 = None \/ Val(c.L0) = 0 \/ Val(c.L0) > 0)
             /\ c.kappa_easy > 0
             /\ c.conv_tol > 0 /\ c.epsilon > 0)
    THEN "ValueError: All inputs that are constants must be larger than 0"
    ELSE IF lower(c.conv_criterion) \notin CriterionNames
    THEN "ValueError: Invalid input for convergence criterion"
    ELSE IF c.aux_method \notin MethodNames
    THEN "ValueError: No such method for solving the auxiliary problem"
    ELSE "ok"

\* _check_inputs with line 82 written with "or" between gradient and hessian
_check_inputs_either_derivative(c) ==
    IF Len(c.x0) < 1 THEN "ValueError: x0 must have length > 0"
    ELSE IF ~(c.has_f \/ (c.has_gradient \/ c.has_hessian))
    THEN "AttributeError: You must specify f and/or each of the following"
    ELSE IF ~(  (c.L0 = None \/ Val(c.L0) = 0 \/ Val(c.L0) > 0)
             /\ c.kappa_easy > 0 /\ c.maxiter > 0
             /\ c.conv_tol > 0 /\ c.epsilon > 0)
    THEN "ValueError: All inputs that are constants must be larger than 0"
    ELSE IF lower(c.conv_criterion) \notin CriterionNames
    THEN "ValueError: Invalid input for convergence criterion"
    ELSE IF c.aux_method \notin MethodNames
    THEN "ValueError: No such method for solving the auxiliary problem"
    ELSE "ok"

\* Algorithm._check_inputs: the first check that fails, or "ok"
_check_inputs(c) ==
    IF Len(c.x0) < 1 THEN "ValueError: x0 must have length > 0"
    ELSE IF ~(c.has_f \/ (c.has_gradient /\ c.has_hessian))
    THEN "AttributeError: You must specify f and/or each of the following"
    ELSE IF ~(  (c.L0 = None \/ Val(c.L0) = 0 \/ Val(c.L0) > 0)
             /\ c.kappa_easy > 0 /\ c.maxiter > 0
             /\ c.conv_tol > 0 /\ c.epsilon > 0)
    THEN "ValueError: All inputs that are constants must be larger than 0"
    ELSE IF lower(c.conv_criterion) \notin CriterionNames
    THEN "ValueError: Invalid input for convergence criterion"
    ELSE IF c.aux_method \notin MethodNames
    THEN "ValueError: No such method for solving the auxiliary problem"
    ELSE "ok"

\* Algorithm.__init__, lines 67-68: the finite-difference probe for L0
BootstrapL0 ==
    Abs(Hessian(Val(cfg.x0)) - Hessian(Val(cfg.x0) + 1)) + cfg.epsilon

---------------------------------------------------------------------------
(* _AuxiliaryProblem.solve: what one call can answer *)

Ok(s, fl, hc) == [exc |-> "", s |-> s, flag |-> fl, hess_cond |-> hc]
Raises(what) == [exc |-> what, s |-> 0, flag |-> 0, hess_cond |-> 0]

\* s = -(H + lambda I)^(-1) g with H + lambda I positive definite (line 304),
\* u = -eta/(eigvals + 3 M v) with clamped eigvals (lines 386, 426)
DescentSteps(g) == {s \in -MaxStep..MaxStep : s * g <= 0}

\* _compute_s at the first lambda (lines 349-353): numpy's Cholesky accepts
\* H + lambda I only if it is positive definite; lambda is 0 when
\* lambda_nplus = 0 and lambda_nplus + lambda_const (lambda_const > 0) otherwise
FirstCholeskyOk(h, lnp) == h + lnp > 0 \/ (lnp > 0 /\ h + lnp = 0)

\* method "trust_region", lines 339-377
solve_trust_region(g, h, M, lnp) ==
    IF ~FirstCholeskyOk(h, lnp)
    THEN {Ok(0, 1, -1)}                      \* lines 297-303, 354-355
    ELSE IF M = 0
    THEN {Raises("ZeroDivisionError")}       \* line 356: r = 2*lambduh/self.M
    ELSE IF g = 0
    THEN IF lnp = 0
         THEN {Ok(0, 0, -1)}                 \* lines 357-359: s = -g/h = 0
         ELSE {Ok(s, 0, -1) : s \in 0..MaxStep}   \* lines 361-366, alpha >= 0
    ELSE {Ok(s, 0, -1) : s \in DescentSteps(g)}   \* lines 367-377
         \* lines 373-375: when ||s|| < 2*lambda_const/M - kappa_easy the
         \* Newton steps of line 372 lower lambda until H + lambda I is no
         \* longer positive definite
         \cup {Ok(0, 1, -1)}

\* method "monotone_norm", lines 378-437; eigvals[-1]/eigvals[0] = 1 for n = 1
solve_monotone_norm(g, h, M, lnp) ==
    IF g = 0
    THEN IF h < 0
         THEN {Ok(1, 0, 1)}                  \* line 433: s = eigvecs[0]
         ELSE {Ok(0, 0, 1)}                  \* line 436: s = eta
    ELSE {Ok(s, 0, 1) : s \in DescentSteps(g)}    \* lines 412-428
         \cup {Raises("RuntimeError: Failed to converge")}   \* line 412

solve(method, g, h, M, lnp) ==
    IF method = "trust_region"
    THEN solve_trust_region(g, h, M, lnp)
    ELSE solve_monotone_norm(g, h, M, lnp)

---------------------------------------------------------------------------
(* Exact arithmetic for the solver: a number is a reduced fraction <<n, d>>,
   d > 0 *)

RECURSIVE GCD(_, _)
GCD(a, b) == IF b = 0 THEN a ELSE GCD(b, a % b)

Rat(n, d) ==
    LET sg == IF d < 0 THEN -1 ELSE 1
        k == GCD(Abs(n), Abs(d))
    IN  <<(sg * n) \div k, (sg * d) \div k>>

RInt(n) == <<n, 1>>
\* sums over the least common denominator, products after cross-reduction,
\* so that no intermediate number is larger than needed
RAdd(a, b) ==
    LET k == GCD(a[2], b[2])
    IN  Rat(a[1] * (b[2] \div k) + b[1] * (a[2] \div k), (a[2] \div k) * b[2])
RSub(a, b) == RAdd(a, <<-b[1], b[2]>>)
RMul(a, b) ==
    LET k1 == GCD(Abs(a[1]), b[2])
        k2 == GCD(Abs(b[1]), a[2])
    IN  Rat((a[1] \div k1) * (b[1] \div k2), (a[2] \div k2) * (b[2] \div k1))
RDiv(a, b) == RMul(a, IF b[1] < 0 THEN <<-b[2], -b[1]>> ELSE <<b[2], b[1]>>)
RNeg(a) == <<-a[1], a[2]>>
RAbs(a) == <<Abs(a[1]), a[2]>>

\* a/b <= c/d for b, d > 0, by integer parts (no product is formed)
RECURSIVE LeFrac(_, _, _, _)
LeFrac(a, b, c, d) ==
    IF a \div b # c \div d THEN a \div b < c \div d
    ELSE IF a % b = 0 THEN TRUE
    ELSE IF c % d = 0 THEN FALSE
    ELSE LeFrac(d, c % d, b, a % b)

RLe(a, b) == LeFrac(a[1], a[2], b[1], b[2])

\* the sum of a sequence of fractions
RECURSIVE RSum(_)
RSum(seq) == IF seq = <<>> THEN RInt(0) ELSE RAdd(seq[1], RSum(Tail(seq)))

---------------------------------------------------------------------------
(* _AuxiliaryProblem with a diagonal Hessian: hess_x is its diagonal.
   trust_region is taken in one dimension, where the norms, the Cholesky
   factor and the triangular solves are exact *)

ClampInv == 100000000   \* line 386: 1.0e-08 = 1 / ClampInv

\* line 348: np.sqrt(np.finfo(float).eps) = 2^-26. The model takes 1/4 for
\* it, with M and kappa_easy of the same order, so that the fractions stay
\* within the machine integers
sqrt_eps == Rat(1, 4)

\* the iteration caps (submaxiter) the solver is run with: after two Newton
\* updates the exact fractions of a third no longer fit the machine integers
NewtonCaps == {1, 2}

\* line 346: self.H_lambda, n = 1
H_lambda(lambduh) == RAdd(RInt(aux_in.hess_x[1]), lambduh)

\* np.linalg.cholesky succeeds exactly on a positive definite matrix
CholeskyOk(m) == m[1] > 0

\* _compute_s, lines 288-305. The nested call returns a 3-tuple in both of
\* its return statements; "s, L = ..." (line 301) needs a 2-tuple, so the
\* unpacking raises and the bare except of line 302 answers flag 1.
\* retry tells what the nested Cholesky met.
RECURSIVE _compute_s(_, _)
_compute_s(lambduh, lambda_const) ==
    IF CholeskyOk(H_lambda(lambduh))
    THEN [ret |-> <<RDiv(RInt(-aux_in.grad_x[1]), H_lambda(lambduh)),
                    H_lambda(lambduh), 0>>,
          lambda_const |-> lambda_const,
          retry |-> "none"]
    ELSE LET doubled == RMul(RInt(2), lambda_const)
             nested == _compute_s(RAdd(RInt(aux_in.lambda_nplus), doubled), doubled)
         IN  IF Len(nested.ret) = 2
             THEN [ret |-> <<RDiv(RInt(-aux_in.grad_x[1]), nested.ret[2]),
                             nested.ret[2], 0>>,
                   lambda_const |-> nested.lambda_const,
                   retry |-> "continued"]
             ELSE [ret |-> <<RInt(0), None, 1>>,
                   lambda_const |-> nested.lambda_const,
                   retry |-> IF nested.retry = "none" THEN "factorized"
                             ELSE nested.retry]

\* _update_lambda, lines 307-319; ||w||^2 = s^2 / (L^T L) for n = 1
_update_lambda(lambduh, sv, Lm) ==
    LET norm_w_sq == RDiv(RMul(sv, sv), Lm)
        norm_s == RAbs(sv)
        phi == RSub(RDiv(RInt(1), norm_s),
                    RDiv(aux_in.M, RMul(RInt(2), lambduh)))
        \* a / b^3 is taken as ((a / b) / b) / b, a / (2 b^2) as (a / (2 b)) / b
        phi_prime == RAdd(RDiv(RDiv(RDiv(norm_w_sq, norm_s), norm_s), norm_s),
                          RDiv(RDiv(aux_in.M, RMul(RInt(2), lambduh)), lambduh))
    IN  RSub(lambduh, RDiv(phi, phi_prime))

\* _converged, lines 321-332
\* abs(norm(s) - r) <= kappa_easy, taken as r - kappa_easy <= norm(s) <= r + kappa_easy
_converged(sv, lambduh) ==
    LET r == RDiv(RMul(RInt(2), lambduh), aux_in.M)
    IN  /\ RLe(RSub(r, aux_in.kappa_easy), RAbs(sv))
        /\ RLe(RAbs(sv), RAdd(r, aux_in.kappa_easy))

\* the smallest entry of a non-empty sequence of integers
MinOf(seq) == CHOOSE v \in {seq[i] : i \in DOMAIN seq} :
                  \A i \in DOMAIN seq : v <= seq[i]

\* scipy.linalg.eigh on diag(hess_x), lines 384-385: eigenvalues ascending,
\* eigenvector c in COLUMN c; column c is the unit vector of the place the
\* eigenvalue has on the diagonal, with the sign eigh gave it
eigh_order ==
    CHOOSE p \in [DOMAIN aux_in.hess_x -> DOMAIN aux_in.hess_x] :
        /\ \A i, j \in DOMAIN p : i # j => p[i] # p[j]
        /\ \A i, j \in DOMAIN p : i < j => aux_in.hess_x[p[i]] <= aux_in.hess_x[p[j]]

eigvals_raw == [i \in DOMAIN aux_in.hess_x |-> aux_in.hess_x[eigh_order[i]]]

eigvecs ==
    [r \in DOMAIN aux_in.hess_x |->
        [c \in DOMAIN aux_in.hess_x |->
            IF r = eigh_order[c] THEN aux_in.eigh_signs[c] ELSE 0]]

\* line 385
eigvals_min == eigvals_raw[1]

\* line 386: np.where(eigvals <= 0, 1.0e-08, eigvals)
eigvals ==
    [i \in DOMAIN eigvals_raw |->
        IF eigvals_raw[i] <= 0 THEN Rat(1, ClampInv) ELSE RInt(eigvals_raw[i])]

\* line 388 with a clamp that replaces zero eigenvalues only
hess_cond_clamp_zero_only ==
    LET kept == [i \in DOMAIN eigvals_raw |->
                    IF eigvals_raw[i] = 0 THEN Rat(1, ClampInv)
                    ELSE RInt(eigvals_raw[i])]
    IN  RDiv(kept[Len(kept)], kept[1])

\* line 388: eigvals[-1] / eigvals[0], after the clamp of line 386
hess_cond == RDiv(eigvals[Len(eigvals)], eigvals[1])

\* line 394: np.column_stack(eigvecs) puts ROW r of eigvecs in column r
O == [r \in DOMAIN eigvecs |-> [c \in DOMAIN eigvecs |-> eigvecs[c][r]]]

\* line 403: eta = O g
eta ==
    [r \in DOMAIN O |->
        RSum([c \in DOMAIN O |-> RInt(O[r][c] * aux_in.grad_x[c])])]

\* line 405: np.all(np.isclose(eta, 0)), on integers
stationary == \A r \in DOMAIN eta : eta[r] = RInt(0)

\* lines 426-428: u = -eta / (eigvals + 3 M v), s = O^T u
step_from_root(v) ==
    LET u == [i \in DOMAIN eta |->
                 RDiv(RNeg(eta[i]),
                      RAdd(eigvals[i], RMul(RInt(3), RMul(aux_in.M, v))))]
    IN  [r \in DOMAIN O |->
            RSum([c \in DOMAIN O |-> RMul(RInt(O[c][r]), u[c])])]

\* lines 430-436: the step at a stationary point
stationary_step ==
    IF eigvals_min < 0
    THEN [c \in DOMAIN eigvecs |-> RInt(eigvecs[1][c])]   \* eigvecs[0]
    ELSE eta

\* the roots scipy's newton can report for the scalar equation of line 408
NewtonRoots == {RInt(1), Rat(1, 2)}

\* the tuple solve() returns, or the exception that ends it
Returned(sv, fl, hc) == [exc |-> "", s |-> sv, flag |-> fl, hess_cond |-> hc]
Raised(what) == [exc |-> what, s |-> <<>>, flag |-> 0, hess_cond |-> RInt(0)]

---------------------------------------------------------------------------
(* Pure parts of the driver *)

\* CubicRegularization._cubic_approx, times 6
_cubic_approx(f_x, s, m) ==
    6 * f_x + 6 * grad_x * s + 3 * hess_x * s * s + m * Abs(s) * Abs(s) * Abs(s)

\* Algorithm._check_convergence, on the gradient g and Hessian h it reads
_check_convergence(xo, xn, g, h) ==
    IF lower(cfg.conv_criterion) = str_function
    THEN F(xn) > F(xo)
    ELSE IF lower(cfg.conv_criterion) = str_gradient
    THEN Abs(g) <= cfg.conv_tol
    ELSE \* 1/2 * g * pinv(h) * g <= conv_tol, pinv(0) = 0
         IF h = 0 THEN 0 <= cfg.conv_tol
         ELSE IF h > 0 THEN g * g <= 2 * cfg.conv_tol * h
         ELSE g * g >= 2 * cfg.conv_tol * h

\* line 209 written with "iter <= self.maxiter"
LoopCondition_off_by_one == iter <= cfg.maxiter /\ converged = FALSE

\* cubic_reg, line 209: the condition of the outer while loop
LoopCondition == iter < cfg.maxiter /\ converged = FALSE

\* line 226 written with "eigvals > 0"
NotPSD_strict(h) == ~(h > 0)

\* cubic_reg, lines 225-226: not np.all(eigvals >= 0), n = 1
NotPSD(h) == ~(h >= 0)

\* the tuple cubic_reg returns
Result ==
    [x |-> x_new, points |-> intermediate_points, iter |-> iter, flag |-> flag,
     hess_cond |-> intermediate_hess_cond]

\* np.linalg.pinv of a 1 x 1 matrix
pinv(a) == IF a[1] = 0 THEN RInt(0) ELSE RDiv(RInt(1), a)

\* lines 361-366, n = 1: the larger root of
\* alpha^2 + 2 U s_cri alpha + s_cri^2 - 4 lambda_nplus^2 / M^2 is
\* -U s_cri + 2 lambda_nplus / M, because (U s_cri)^2 = s_cri^2
hard_case_step ==
    LET U == RInt(aux_in.eigh_signs[1])
        Lambda == H_lambda(RInt(aux_in.lambda_nplus))
        s_cri == RNeg(RMul(RMul(U, pinv(Lambda)),
                           RMul(U, RInt(aux_in.grad_x[1]))))
        alpha == RAdd(RNeg(RMul(U, s_cri)),
                      RDiv(RMul(RInt(2), RInt(aux_in.lambda_nplus)), aux_in.M))
    IN  RAdd(s_cri, RMul(alpha, U))

---------------------------------------------------------------------------
(* One call of _AuxiliaryProblem.solve, step by step *)

\* no solver call is being followed
AuxIdle ==
    /\ aux_in = None
    /\ aux_pc = "off"
    /\ aux_lambda_const = RInt(0)
    /\ aux_lambduh = RInt(0)
    /\ aux_s = RInt(0)
    /\ aux_L = None
    /\ aux_iter = 0
    /\ aux_retry = "none"
    /\ aux_ret = None
    /\ aux_log = <<>>

\* the driver hands over lambda_nplus = max(-lambda_min(H), 0), line 150
AuxArgs(method, g, h, M, kappa_easy, maxiter, signs) ==
    [method |-> method, grad_x |-> g, hess_x |-> h, M |-> M,
     lambda_nplus |-> Max(-MinOf(h), 0), kappa_easy |-> kappa_easy,
     maxiter |-> maxiter, eigh_signs |-> signs]

TrustRegionInputs ==
    {AuxArgs("trust_region", <<g>>, <<h>>, M, k, mi, <<1>>) :
        g \in {-4, -1, 0, 1, 4}, h \in {-1, 0, 2},
        M \in {Rat(1, 4), RInt(1), RInt(3)},
        k \in {Rat(1, 2), RInt(1)},
        mi \in NewtonCaps}

Diagonals ==
    {<<-1>>, <<0>>, <<2>>, <<-1, 2>>, <<2, -1>>, <<0, 2>>, <<2, 3>>,
     <<2, 3, -1>>, <<-1, 2, 3>>, <<3, -1, 2>>, <<1, 2, 3>>}

MonotoneNormInputs ==
    UNION {{AuxArgs("monotone_norm", g, h, M, RInt(1), 2, sg) :
                g \in [DOMAIN h -> {-1, 0, 2}],
                M \in {Rat(1, 4), RInt(1), RInt(3)},
                sg \in [DOMAIN h -> {-1, 1}]} : h \in Diagonals}

AuxInputs == TrustRegionInputs \cup MonotoneNormInputs

\* solve() returns
AuxReturn(sv, fl, hc) ==
    /\ aux_pc' = "done"
    /\ aux_ret' = Returned(sv, fl, hc)

\* line 348 written so that a lambda_const assigned by an earlier call is kept
TrustRegionStart_keeps_lambda_const ==
    /\ aux_pc = "start"
    /\ aux_in.method = "trust_region"
    /\ LET lc == IF aux_lambda_const # RInt(0) THEN aux_lambda_const
                 ELSE RMul(RInt(1 + aux_in.lambda_nplus), sqrt_eps)
           lam == IF aux_in.lambda_nplus = 0 THEN RInt(0)
                  ELSE RAdd(RInt(aux_in.lambda_nplus), lc)
           cs == _compute_s(lam, lc)
           r == RDiv(RMul(RInt(2), lam), aux_in.M)
       IN  /\ aux_lambda_const' = cs.lambda_const
           /\ aux_retry' = cs.retry
           /\ aux_s' = cs.ret[1]
           /\ aux_L' = cs.ret[2]
           /\ aux_iter' = 0
           /\ IF cs.ret[3] # 0
              THEN \* lines 354-355
                   /\ aux_lambduh' = lam
                   /\ AuxReturn(<<cs.ret[1]>>, cs.ret[3], RInt(-1))
              ELSE IF RLe(RAbs(cs.ret[1]), r)
              THEN /\ aux_lambduh' = lam
                   /\ IF lam = RInt(0) \/ RAbs(cs.ret[1]) = r
                      THEN AuxReturn(<<cs.ret[1]>>, 0, RInt(-1))
                      ELSE AuxReturn(<<hard_case_step>>, 0, RInt(-1))
              ELSE \* lines 367-369
                   /\ aux_lambduh' = (IF lam = RInt(0) THEN cs.lambda_const ELSE lam)
                   /\ aux_pc' = "loop"
                   /\ aux_ret' = aux_ret
    /\ UNCHANGED <<driverVars, aux_in, aux_log>>

\* trust_region, lines 344-368: up to the first return or the Newton loop
TrustRegionStart ==
    /\ aux_pc = "start"
    /\ aux_in.method = "trust_region"
    /\ LET lc == RMul(RInt(1 + aux_in.lambda_nplus), sqrt_eps)
           lam == IF aux_in.lambda_nplus = 0 THEN RInt(0)
                  ELSE RAdd(RInt(aux_in.lambda_nplus), lc)
           cs == _compute_s(lam, lc)
           r == RDiv(RMul(RInt(2), lam), aux_in.M)
       IN  /\ aux_lambda_const' = cs.lambda_const
           /\ aux_retry' = cs.retry
           /\ aux_s' = cs.ret[1]
           /\ aux_L' = cs.ret[2]
           /\ aux_iter' = 0
           /\ IF cs.ret[3] # 0
              THEN \* lines 354-355
                   /\ aux_lambduh' = lam
                   /\ AuxReturn(<<cs.ret[1]>>, cs.ret[3], RInt(-1))
              ELSE IF RLe(RAbs(cs.ret[1]), r)
              THEN /\ aux_lambduh' = lam
                   /\ IF lam = RInt(0) \/ RAbs(cs.ret[1]) = r
                      THEN AuxReturn(<<cs.ret[1]>>, 0, RInt(-1))
                      ELSE AuxReturn(<<hard_case_step>>, 0, RInt(-1))
              ELSE \* lines 367-369
                   /\ aux_lambduh' = (IF lam = RInt(0) THEN cs.lambda_const ELSE lam)
                   /\ aux_pc' = "loop"
                   /\ aux_ret' = aux_ret
    /\ UNCHANGED <<driverVars, aux_in, aux_log>>

\* trust_region, lines 370-375: one pass of the Newton loop
TrustRegionNewtonStep ==
    /\ aux_pc = "loop"
    /\ ~_converged(aux_s, aux_lambduh)
    /\ aux_iter < aux_in.maxiter
    /\ LET lam == _update_lambda(aux_lambduh, aux_s, aux_L)
           cs == _compute_s(lam, aux_lambda_const)
       IN  /\ aux_iter' = aux_iter + 1
           /\ aux_lambduh' = lam
           /\ aux_lambda_const' = cs.lambda_const
           /\ aux_retry' = cs.retry
           /\ aux_s' = cs.ret[1]
           /\ aux_L' = cs.ret[2]
           /\ IF cs.ret[3] # 0
              THEN AuxReturn(<<cs.ret[1]>>, cs.ret[3], RInt(-1))
              ELSE /\ aux_pc' = "loop"
                   /\ aux_ret' = aux_ret
    /\ UNCHANGED <<driverVars, aux_in, aux_log>>

\* trust_region: the condition of line 370 fails, line 437 returns flag 0
TrustRegionLoopEnd ==
    /\ aux_pc = "loop"
    /\ ~(~_converged(aux_s, aux_lambduh) /\ aux_iter < aux_in.maxiter)
    /\ AuxReturn(<<aux_s>>, 0, RInt(-1))
    /\ UNCHANGED <<driverVars, aux_in, aux_lambda_const, aux_lambduh, aux_s,
                   aux_L, aux_iter, aux_retry, aux_log>>

\* monotone_norm, lines 383-437
MonotoneNorm ==
    /\ aux_pc = "start"
    /\ aux_in.method = "monotone_norm"
    /\ IF ~stationary
       THEN \E v \in NewtonRoots \cup {None} :
               IF v = None
               THEN \* line 412: newton did not converge within maxiter
                    /\ aux_pc' = "raised"
                    /\ aux_ret' = Raised("RuntimeError: Failed to converge")
               ELSE AuxReturn(step_from_root(v), 0, hess_cond)
       ELSE AuxReturn(stationary_step, 0, hess_cond)
    /\ UNCHANGED <<driverVars, aux_in, aux_lambda_const, aux_lambduh, aux_s,
                   aux_L, aux_iter, aux_retry, aux_log>>

\* the arguments of the calls that are followed one after the other: a
\* failed factorization, which doubles lambda_const; a Newton loop that uses
\* up its cap, with lambda_nplus > 0 and with lambda_nplus = 0; the hard
\* case; a stationary point and a Newton root of monotone_norm
SequenceInputs ==
    {AuxArgs("trust_region", <<1>>, <<0>>, RInt(1), RInt(1), 1, <<1>>),
     AuxArgs("trust_region", <<-4>>, <<-1>>, RInt(3), RInt(1), 1, <<1>>),
     AuxArgs("trust_region", <<-4>>, <<2>>, RInt(1), Rat(1, 2), 2, <<1>>),
     AuxArgs("trust_region", <<0>>, <<-1>>, RInt(1), RInt(1), 1, <<1>>),
     AuxArgs("monotone_norm", <<0, 0>>, <<-1, 2>>, RInt(1), RInt(1), 2, <<1, 1>>),
     AuxArgs("monotone_norm", <<-1, 2>>, <<2, 3>>, RInt(1), RInt(1), 2, <<1, 1>>)}

\* _find_x_new, lines 251-252: the next _AuxiliaryProblem is built. __init__
\* (lines 278-286) stores its arguments and nothing else; what solve() and
\* _compute_s assigned during the call before is not touched
AuxConstruct ==
    /\ aux_pc \in {"done", "raised"}
    /\ aux_in \in SequenceInputs
    /\ Len(aux_log) < MaxSolves - 1
    /\ aux_log' = Append(aux_log, [args |-> aux_in, ret |-> aux_ret])
    /\ aux_in' \in SequenceInputs
    /\ aux_pc' = "start"
    /\ aux_ret' = None
    /\ UNCHANGED <<driverVars, aux_lambda_const, aux_lambduh, aux_s, aux_L,
                   aux_iter, aux_retry>>

AuxNext ==
    \/ TrustRegionStart
    \/ TrustRegionNewtonStep
    \/ TrustRegionLoopEnd
    \/ MonotoneNorm
    \/ AuxConstruct

---------------------------------------------------------------------------
(* Inputs *)

Numbers == {-1, 0, 1}

\* configurations that are run: every run-relevant argument varies
RunConfigs ==
    [obj : {"quadratic", "cubic"},
     x0 : {Some(-1), Some(0), Some(2)},
     has_f : {TRUE}, has_gradient : {TRUE}, has_hessian : {TRUE},
     L : {None},
     L0 : {Some(1), Some(3)},
     kappa_easy : {1},
     maxiter : 1..MaxIter,
     submaxiter : 0..MaxSub,
     conv_tol : {1},
     conv_criterion : {str_function, str_gradient, str_decrement, str_Gradient},
     epsilon : {1},
     aux_method : MethodNames]

\* the callables and the Lipschitz arguments vary
CallableConfigs ==
    [obj : {"cubic"},
     x0 : {Some(0), Some(2)},
     has_f : BOOLEAN, has_gradient : BOOLEAN, has_hessian : BOOLEAN,
     L : {None, Some(1)},
     L0 : {None, Some(1)},
     kappa_easy : {1},
     maxiter : {MaxIter},
     submaxiter : {MaxSub},
     conv_tol : {1},
     conv_criterion : {str_gradient},
     epsilon : {1},
     aux_method : MethodNames]

\* the numeric arguments vary over non-positive and positive values
NumericConfigs ==
    [obj : {"quadratic"},
     x0 : {Some(2)},
     has_f : {TRUE}, has_gradient : {TRUE}, has_hessian : {TRUE},
     L : {None},
     L0 : {None} \cup {Some(v) : v \in Numbers},
     kappa_easy : Numbers,
     maxiter : {-1, 0, 1},
     submaxiter : {-1, 0, 1},
     conv_tol : Numbers,
     conv_criterion : {str_gradient},
     epsilon : Numbers,
     aux_method : {"trust_region"}]

\* x0 and the two names vary
ShapeConfigs ==
    [obj : {"quadratic"},
     x0 : {None, Some(2)},
     has_f : {TRUE}, has_gradient : {TRUE}, has_hessian : {TRUE},
     L : {None},
     L0 : {Some(1)},
     kappa_easy : {1},
     maxiter : {1},
     submaxiter : {1},
     conv_tol : {1},
     conv_criterion : {str_function, str_gradient, str_decrement, str_Gradient,
                       str_newton},
     epsilon : {1},
     aux_method : {"trust_region", "monotone_norm", "newton"}]

Configs == RunConfigs \cup CallableConfigs \cup NumericConfigs \cup ShapeConfigs

---------------------------------------------------------------------------
(* The state machine *)

\* the state before the constructor has run
DriverFresh ==
    /\ pc = "new"
    /\ err = ""
    /\ L0 = None
    /\ grad_x = 0 /\ hess_x = 0 /\ lambda_nplus = 0
    /\ iter = 0 /\ flag = 0 /\ converged = FALSE
    /\ x_new = 0 /\ x_old = 0 /\ mk = None
    /\ intermediate_points = <<>>
    /\ intermediate_hess_cond = <<>>
    /\ in_iter = 0 /\ in_x_new = 0 /\ in_flag = 0 /\ in_hess_cond = 0
    /\ upper_approximation = FALSE
    /\ runs = 0 /\ calls = 0 /\ entered = 0
    /\ warnings = {}
    /\ memo = <<>>
    /\ results = <<>>

Init ==
    /\ cfg \in Configs
    /\ DriverFresh
    /\ AuxIdle

\* Algorithm.__init__ (through CubicRegularization.__init__)
Construct ==
    /\ pc = "new"
    /\ IF _check_inputs(cfg) # "ok"
       THEN /\ pc' = "ctor_raised"
            /\ err' = _check_inputs(cfg)
            /\ UNCHANGED selfVars
       ELSE /\ pc' = "ready"
            /\ err' = ""
            /\ L0' = IF cfg.L0 = None /\ cfg.L = None
                     THEN Some(BootstrapL0) ELSE cfg.L0
            /\ grad_x' = Gradient(Val(cfg.x0))
            /\ hess_x' = Hessian(Val(cfg.x0))
            /\ lambda_nplus' = _compute_lambda_nplus(Hessian(Val(cfg.x0)))
    /\ UNCHANGED <<cfg, callVars, innerVars, runs, calls, entered, warnings,
                   memo, results>>
    /\ UNCHANGED auxVars

\* cubic_reg is called: lines 202-208
CubicRegStart ==
    /\ pc \in {"ready", "returned", "raised"}
    /\ runs < MaxRuns
    /\ pc' = "outer"
    /\ err' = ""
    /\ runs' = runs + 1
    /\ iter' = 0 /\ flag' = 0 /\ converged' = FALSE
    /\ x_new' = Val(cfg.x0)
    /\ x_old' = 0
    /\ mk' = IF L0 = None THEN None ELSE Val(L0)
    /\ intermediate_points' = <<Val(cfg.x0)>>
    /\ intermediate_hess_cond' = <<>>
    /\ in_iter' = 0 /\ in_x_new' = 0 /\ in_flag' = 0 /\ in_hess_cond' = 0
    /\ upper_approximation' = FALSE
    /\ calls' = 0 /\ entered' = 0
    /\ warnings' = {}
    /\ UNCHANGED <<cfg, selfVars, memo, results>>
    /\ UNCHANGED auxVars

\* line 245 written without the halving: mk = max(mk, self.L0)
EnterIteration_without_halving ==
    /\ pc = "outer"
    /\ LoopCondition
    /\ x_old' = x_new
    /\ entered' = entered + 1
    /\ in_iter' = 0 /\ in_x_new' = 0 /\ in_flag' = 0 /\ in_hess_cond' = 0
    /\ upper_approximation' = FALSE
    /\ IF L0 = None
       THEN /\ pc' = "raised"
            /\ err' = "TypeError"
            /\ mk' = mk
       ELSE /\ pc' = "inner"
            /\ err' = err
            /\ mk' = Max(mk, Val(L0))
    /\ UNCHANGED <<cfg, selfVars, iter, flag, converged, x_new,
                   intermediate_points, intermediate_hess_cond, runs, calls,
                   warnings, memo, results>>
    /\ UNCHANGED auxVars

\* line 209 holds; lines 210-211 enter _find_x_new, lines 243-245
EnterIteration ==
    /\ pc = "outer"
    /\ LoopCondition
    /\ x_old' = x_new
    /\ entered' = entered + 1
    /\ in_iter' = 0 /\ in_x_new' = 0 /\ in_flag' = 0 /\ in_hess_cond' = 0
    /\ upper_approximation' = FALSE
    /\ IF L0 = None
       THEN \* line 245: 0.5 * None
            /\ pc' = "raised"
            /\ err' = "TypeError"
            /\ mk' = mk
       ELSE /\ pc' = "inner"
            /\ err' = err
            \* max(0.5 * mk, L0): mk is L0 * 2^k, so mk \div 2 is exact
            \* whenever it is the larger one
            /\ mk' = Max(mk \div 2, Val(L0))
    /\ UNCHANGED <<cfg, selfVars, iter, flag, converged, x_new,
                   intermediate_points, intermediate_hess_cond, runs, calls,
                   warnings, memo, results>>
    /\ UNCHANGED auxVars

\* lines 248-249 written without "if iter != 0": the first attempt doubles too
InnerAttempt_doubles_first ==
    /\ pc = "inner"
    /\ ~upper_approximation /\ in_iter < cfg.submaxiter
    /\ LET m == 2 * mk
           key == <<grad_x, hess_x, m, lambda_nplus>>
           answers == IF key \in DOMAIN memo THEN {memo[key]}
                      ELSE solve(cfg.aux_method, grad_x, hess_x, m, lambda_nplus)
       IN \E out \in answers :
            /\ memo' = IF key \in DOMAIN memo THEN memo ELSE (key :> out) @@ memo
            /\ mk' = m
            /\ calls' = calls + 1
            /\ IF out.exc # ""
               THEN \* line 253 raises
                    /\ pc' = "raised"
                    /\ err' = out.exc
                    /\ UNCHANGED innerVars
               ELSE IF ~cfg.has_f
               THEN \* line 255: self.f is None
                    /\ pc' = "raised"
                    /\ err' = "TypeError"
                    /\ in_x_new' = x_old + out.s
                    /\ in_flag' = out.flag
                    /\ in_hess_cond' = out.hess_cond
                    /\ UNCHANGED <<in_iter, upper_approximation>>
               ELSE /\ in_x_new' = x_old + out.s
                    /\ in_flag' = out.flag
                    /\ in_hess_cond' = out.hess_cond
                    /\ upper_approximation' =
                           (_cubic_approx(F(x_old), out.s, m) >= 6 * F(x_old + out.s))
                    /\ in_iter' = in_iter + 1
                    /\ IF in_iter + 1 = cfg.submaxiter
                       THEN /\ pc' = "raised"
                            /\ err' = "RuntimeError: Could not find cubic upper approximation"
                       ELSE /\ pc' = "inner"
                            /\ err' = err
    /\ UNCHANGED <<cfg, selfVars, iter, flag, converged, x_new, x_old,
                   intermediate_points, intermediate_hess_cond, runs, entered,
                   warnings, results>>
    /\ UNCHANGED auxVars

\* one pass of the while loop of _find_x_new: lines 246-259
InnerAttempt ==
    /\ pc = "inner"
    /\ ~upper_approximation /\ in_iter < cfg.submaxiter
    /\ LET m == IF in_iter # 0 THEN 2 * mk ELSE mk
           key == <<grad_x, hess_x, m, lambda_nplus>>
           answers == IF key \in DOMAIN memo THEN {memo[key]}
                      ELSE solve(cfg.aux_method, grad_x, hess_x, m, lambda_nplus)
       IN \E out \in answers :
            /\ memo' = IF key \in DOMAIN memo THEN memo ELSE (key :> out) @@ memo
            /\ mk' = m
            /\ calls' = calls + 1
            /\ IF out.exc # ""
               THEN \* line 253 raises
                    /\ pc' = "raised"
                    /\ err' = out.exc
                    /\ UNCHANGED innerVars
               ELSE IF ~cfg.has_f
               THEN \* line 255: self.f is None
                    /\ pc' = "raised"
                    /\ err' = "TypeError"
                    /\ in_x_new' = x_old + out.s
                    /\ in_flag' = out.flag
                    /\ in_hess_cond' = out.hess_cond
                    /\ UNCHANGED <<in_iter, upper_approximation>>
               ELSE /\ in_x_new' = x_old + out.s
                    /\ in_flag' = out.flag
                    /\ in_hess_cond' = out.hess_cond
                    /\ upper_approximation' =
                           (_cubic_approx(F(x_old), out.s, m) >= 6 * F(x_old + out.s))
                    /\ in_iter' = in_iter + 1
                    /\ IF in_iter + 1 = cfg.submaxiter
                       THEN /\ pc' = "raised"
                            /\ err' = "RuntimeError: Could not find cubic upper approximation"
                       ELSE /\ pc' = "inner"
                            /\ err' = err
    /\ UNCHANGED <<cfg, selfVars, iter, flag, converged, x_new, x_old,
                   intermediate_points, intermediate_hess_cond, runs, entered,
                   warnings, results>>
    /\ UNCHANGED auxVars

\* lines 219-222 placed after the append of line 223
FlaggedReturn_after_append ==
    /\ warnings' = warnings \cup {"Convergence criteria not met"}
    /\ pc' = "returned"
    /\ intermediate_points' = Append(intermediate_points, in_x_new)
    /\ results' = Append(results,
           [x |-> in_x_new, points |-> Append(intermediate_points, in_x_new),
            iter |-> iter, flag |-> in_flag,
            hess_cond |-> Append(intermediate_hess_cond, in_hess_cond)])
    /\ UNCHANGED iter

\* lines 219-222 placed before the append of line 215
FlaggedReturn_before_diagnostics ==
    /\ warnings' = warnings \cup {"Convergence criteria not met"}
    /\ pc' = "returned"
    /\ results' = Append(results,
           [x |-> in_x_new, points |-> intermediate_points,
            iter |-> iter, flag |-> in_flag,
            hess_cond |-> intermediate_hess_cond])
    /\ UNCHANGED <<iter, intermediate_points>>

\* cubic_reg, lines 219-222: the solver failed, return without appending
FlaggedReturn ==
    /\ warnings' = warnings \cup {"Convergence criteria not met"}
    /\ pc' = "returned"
    /\ results' = Append(results,
           [x |-> in_x_new, points |-> intermediate_points,
            iter |-> iter, flag |-> in_flag,
            hess_cond |-> Append(intermediate_hess_cond, in_hess_cond)])
    /\ UNCHANGED <<iter, intermediate_points>>

\* cubic_reg, lines 223-224: the step is appended and counted
AcceptStep ==
    /\ intermediate_points' = Append(intermediate_points, in_x_new)
    /\ iter' = iter + 1
    /\ pc' = "outer"
    /\ UNCHANGED <<warnings, results>>

\* line 218 placed before the refresh of lines 213-216
FinishIteration_criterion_first ==
    /\ pc = "inner"
    /\ ~(~upper_approximation /\ in_iter < cfg.submaxiter)
    /\ IF in_iter = 0
       THEN \* line 260: the loop body never ran, x_new is unbound
            /\ pc' = "raised"
            /\ err' = "UnboundLocalError"
            /\ UNCHANGED <<selfVars, callVars, warnings, results>>
       ELSE /\ x_new' = in_x_new
            /\ flag' = in_flag
            /\ grad_x' = Gradient(in_x_new)
            /\ hess_x' = Hessian(in_x_new)
            /\ intermediate_hess_cond' = Append(intermediate_hess_cond, in_hess_cond)
            /\ lambda_nplus' = _compute_lambda_nplus(Hessian(in_x_new))
            /\ converged' = _check_convergence(x_old, in_x_new, grad_x, hess_x)
            /\ err' = err
            /\ UNCHANGED <<L0, x_old, mk>>
            /\ IF in_flag # 0 THEN FlaggedReturn ELSE AcceptStep
    /\ UNCHANGED <<cfg, innerVars, runs, calls, entered, memo>>
    /\ UNCHANGED auxVars

\* the while loop of _find_x_new ends: line 260, then lines 211-224
FinishIteration ==
    /\ pc = "inner"
    /\ ~(~upper_approximation /\ in_iter < cfg.submaxiter)
    /\ IF in_iter = 0
       THEN \* line 260: the loop body never ran, x_new is unbound
            /\ pc' = "raised"
            /\ err' = "UnboundLocalError"
            /\ UNCHANGED <<selfVars, callVars, warnings, results>>
       ELSE /\ x_new' = in_x_new
            /\ flag' = in_flag
            /\ grad_x' = Gradient(in_x_new)
            /\ hess_x' = Hessian(in_x_new)
            /\ intermediate_hess_cond' = Append(intermediate_hess_cond, in_hess_cond)
            /\ lambda_nplus' = _compute_lambda_nplus(Hessian(in_x_new))
            /\ converged' = _check_convergence(x_old, in_x_new, Gradient(in_x_new),
                                               Hessian(in_x_new))
            /\ err' = err
            /\ UNCHANGED <<L0, x_old, mk>>
            /\ IF in_flag # 0 THEN FlaggedReturn ELSE AcceptStep
    /\ UNCHANGED <<cfg, innerVars, runs, calls, entered, memo>>
    /\ UNCHANGED auxVars

\* line 209 fails: lines 225-233
Return ==
    /\ pc = "outer"
    /\ ~LoopCondition
    /\ warnings' = IF NotPSD(hess_x)
                   THEN warnings \cup {"Did not converge to a local minimum"}
                   ELSE warnings
    /\ pc' = "returned"
    /\ results' = Append(results, Result)
    /\ UNCHANGED <<cfg, err, selfVars, callVars, innerVars, runs, calls, entered,
                   memo>>
    /\ UNCHANGED auxVars

Next ==
    \/ Construct
    \/ CubicRegStart
    \/ EnterIteration
    \/ InnerAttempt
    \/ FinishIteration
    \/ Return

Spec == Init /\ [][Next]_vars

\* the solver alone, called with the arguments of AuxInputs
AuxInit ==
    /\ cfg = None
    /\ DriverFresh
    /\ aux_in \in AuxInputs
    /\ aux_pc = "start"
    /\ aux_lambda_const = RInt(0)
    /\ aux_lambduh = RInt(0)
    /\ aux_s = RInt(0)
    /\ aux_L = None
    /\ aux_iter = 0
    /\ aux_retry = "none"
    /\ aux_ret = None
    /\ aux_log = <<>>

AuxSpec == AuxInit /\ [][AuxNext]_vars

---------------------------------------------------------------------------
(* Properties *)

CouldNotFind == "RuntimeError: Could not find cubic upper approximation"

\* C1: whenever the auxiliary solver answers flag != 0 on an inner attempt,
\* the call makes no further solver call, does not raise, and returns that
\* flag with the trace and the count as they were when the iteration began
\* (the trace holds one point per iteration begun, the count is one less).
C1_FlaggedAttemptIsReturned ==
    (pc \in {"inner", "raised", "returned"} /\ in_flag # 0) =>
        /\ pc # "raised"
        /\ pc = "inner" => upper_approximation
        /\ pc = "returned" =>
              /\ flag = in_flag
              /\ Last(results).flag = in_flag
              /\ Last(results).points = intermediate_points
              /\ Len(intermediate_points) = entered
              /\ Last(results).iter = entered - 1

C4_RunsAgree ==
    \A i, j \in DOMAIN results :
        /\ results[i].x = results[j].x
        /\ results[i].points = results[j].points
        /\ results[i].iter = results[j].iter
        /\ results[i].flag = results[j].flag

\* C5 (as claimed): a solver configured with maxiter = 0 runs and returns at
\* once with iteration count 0, final point x0 and trace [x0], without a
\* call of the auxiliary solver.
C5_ZeroMaxiterReturnsAtOnce ==
    (cfg.maxiter = 0 /\ pc # "new") =>
        /\ pc # "ctor_raised"
        /\ pc = "returned" =>
              /\ Last(results).iter = 0
              /\ Last(results).x = Val(cfg.x0)
              /\ Last(results).points = <<Val(cfg.x0)>>
              /\ calls = 0

\* C5 (amended): a solver cannot be configured with maxiter = 0; the
\* constructor raises, cubic_reg() is never entered, the auxiliary solver is
\* never called and nothing is returned.
C5_ZeroMaxiterIsRejected ==
    (cfg.maxiter = 0 /\ pc # "new") =>
        /\ pc = "ctor_raised"
        /\ err # ""
        /\ runs = 0 /\ calls = 0
        /\ results = <<>>

C5_Witness ==
    /\ cfg.maxiter = 0
    /\ pc = "ctor_raised"
    /\ err = "ValueError: All inputs that are constants must be larger than 0"

\* C6: construction raises whenever one of L0, kappa_easy, maxiter,
\* submaxiter, conv_tol, epsilon is supplied and is zero or negative; no
\* solver object with such a value reaches cubic_reg().
C6_NonPositiveIsRejected ==
    (   pc # "new"
     /\ \/ (cfg.L0 # None /\ Val(cfg.L0) <= 0)
        \/ cfg.kappa_easy <= 0
        \/ cfg.maxiter <= 0
        \/ cfg.submaxiter <= 0
        \/ cfg.conv_tol <= 0
        \/ cfg.epsilon <= 0)
    => (pc = "ctor_raised" /\ runs = 0)

\* C7 (as claimed): construction raises when conv_criterion as given is not
\* one of function / gradient / decrement, when aux_method is not one of
\* trust_region / monotone_norm, when x0 is empty, or when f is absent and
\* gradient or hessian is absent.
C7_InvalidAsGivenIsRejected ==
    (   pc # "new"
     /\ \/ cfg.conv_criterion \notin CriterionNames
        \/ cfg.aux_method \notin MethodNames
        \/ cfg.x0 = None
        \/ (~cfg.has_f /\ (~cfg.has_gradient \/ ~cfg.has_hessian)))
    => (pc = "ctor_raised" /\ runs = 0)

\* C7 (amended): the same, with conv_criterion compared after lower-casing:
\* construction raises when lower(conv_criterion) is not one of the three
\* names, and a valid name in another case is accepted and used lower-cased.
C7_InvalidIsRejected ==
    /\ (   pc # "new"
        /\ \/ lower(cfg.conv_criterion) \notin CriterionNames
           \/ cfg.aux_method \notin MethodNames
           \/ cfg.x0 = None
           \/ (~cfg.has_f /\ (~cfg.has_gradient \/ ~cfg.has_hessian)))
       => (pc = "ctor_raised" /\ err # "" /\ runs = 0)
    /\ (pc = "ctor_raised"
        /\ err = "ValueError: Invalid input for convergence criterion")
       => lower(cfg.conv_criterion) \notin CriterionNames

C7_Witness ==
    /\ pc = "ctor_raised"
    /\ ~cfg.has_f /\ cfg.has_gradient /\ ~cfg.has_hessian
    /\ err = "AttributeError: You must specify f and/or each of the following"

\* C8: on every return of cubic_reg(), flagged or not, the trace starts with
\* x0, holds iteration count + 1 points, and the final point is its last
\* element; while a call runs the trace only grows at its end, and a tuple
\* once returned is never changed.
C8_ReturnedTrace ==
    /\ [](pc = "returned" =>
            /\ intermediate_points[1] = Val(cfg.x0)
            /\ Len(intermediate_points) = iter + 1
            /\ x_new = Last(intermediate_points)
            /\ Last(results) = Result)
    /\ [][(runs' = runs => IsPrefix(intermediate_points, intermediate_points'))
          /\ IsPrefix(results, results')]_vars

C8_Witness ==
    /\ pc = "returned"
    /\ flag # 0
    /\ Len(intermediate_points) >= 2

\* C9: a call enters the outer loop body at most maxiter times; a call that
\* returns with flag 0 ends with iteration count = maxiter or with the
\* configured criterion holding for the last appended point, evaluated with
\* the gradient and Hessian of that point; and no iteration is begun when the
\* criterion held for the last appended point.
C9_LoopBound ==
    pc \in {"outer", "inner", "returned", "raised"} =>
        /\ entered <= cfg.maxiter
        /\ iter <= entered
        /\ (pc = "returned" /\ flag = 0) =>
              \/ iter = cfg.maxiter
              \/ /\ iter >= 1
                 /\ _check_convergence(intermediate_points[iter],
                                       intermediate_points[iter + 1],
                                       Gradient(x_new), Hessian(x_new))
        /\ (pc = "inner" /\ iter >= 1) =>
              /\ converged = FALSE
              /\ ~_check_convergence(intermediate_points[iter],
                                     intermediate_points[iter + 1],
                                     Gradient(x_old), Hessian(x_old))

C9_Witness ==
    /\ pc = "returned"
    /\ flag = 0
    /\ converged
    /\ iter >= 1 /\ iter < cfg.maxiter

\* C10 (as claimed): a call that ends with iteration count = maxiter and the
\* criterion not met surfaces a warning, and so does one whose final Hessian
\* is not positive semi-definite; the last iterate is returned.
C10_NonConvergenceIsWarned ==
    (pc = "returned" /\ flag = 0) =>
        /\ (iter = cfg.maxiter /\ ~converged) => warnings # {}
        /\ Hessian(x_new) < 0 => warnings # {}
        /\ Last(results).x = Last(intermediate_points)

\* C10 (amended): a call that returns with flag 0 returns the last iterate
\* and prints exactly one kind of warning, 'Did not converge to a local
\* minimum', and prints it exactly when the final Hessian is not positive
\* semi-definite; reaching maxiter without convergence with a positive
\* semi-definite final Hessian prints nothing.
C10_WarningIffNotPSD ==
    (pc = "returned" /\ flag = 0) =>
        /\ warnings = IF Hessian(x_new) < 0
                      THEN {"Did not converge to a local minimum"}
                      ELSE {}
        /\ Last(results).x = Last(intermediate_points)

C10_Witness ==
    /\ pc = "returned"
    /\ flag = 0
    /\ iter = cfg.maxiter
    /\ ~converged
    /\ warnings = {}

\* C11 (as claimed): every tuple cubic_reg() returns holds exactly one
\* diagnostic per counted iteration, len(diagnostics) = iteration count, on
\* the flag-0 path and on the flagged path alike.
C11_OneDiagnosticPerCountedIteration ==
    pc = "returned" =>
        Len(Last(results).hess_cond) = Last(results).iter

\* C11 (amended): every return is the 5-tuple, and the diagnostics hold one
\* entry per outer iteration whose inner search returned: iteration count
\* entries on a flag-0 return, iteration count + 1 on a flagged return (the
\* diagnostic of the failed iteration is appended before the flag is tested).
C11_OneDiagnosticPerFinishedSearch ==
    pc = "returned" =>
        /\ DOMAIN Last(results) = {"x", "points", "iter", "flag", "hess_cond"}
        /\ Len(Last(results).hess_cond) =
               Last(results).iter + (IF Last(results).flag # 0 THEN 1 ELSE 0)
        /\ Len(Last(results).hess_cond) = entered
        /\ Last(Last(results).hess_cond) = in_hess_cond

C11_Witness ==
    /\ pc = "returned"
    /\ Last(results).flag # 0
    /\ Last(results).iter >= 1
    /\ Len(Last(results).hess_cond) = Last(results).iter + 1

\* C13: a call starts with weight L0; entering an outer iteration sets the
\* weight to max(mk_prev / 2, L0), mk_prev being the weight the previous
\* iteration ended with, which is the weight of its last (accepted) attempt;
\* every weight handed to the auxiliary solver is >= L0.
C13_WeightFloor ==
    /\ []((pc = "outer" /\ iter = 0) => (L0 # None => mk = Val(L0)))
    /\ []((pc \in {"inner", "outer", "returned"} /\ calls >= 1) =>
             /\ mk >= Val(L0)
             /\ <<grad_x, hess_x, mk, lambda_nplus>> \in DOMAIN memo
                \/ pc # "inner" \/ in_iter = 0)
    /\ [](\A key \in DOMAIN memo : key[3] >= Val(L0))
    /\ [][(pc = "outer" /\ pc' = "inner") =>
             2 * mk' = Max(mk, 2 * Val(L0))]_vars
    /\ [][(pc = "inner" /\ pc' \in {"outer", "returned"}) => mk' = mk]_vars

\* the first iteration took two attempts (weight 2 * L0) and the second
\* iteration starts from the halved weight
C13_Witness ==
    /\ pc = "inner"
    /\ entered = 2 /\ in_iter = 0
    /\ calls = 2
    /\ mk = Val(L0)

C16_RefreshThenCriterionThenAppend ==
    (pc = "outer" /\ iter >= 1) =>
        /\ flag = 0
        /\ Len(intermediate_points) = iter + 1
        /\ x_new = Last(intermediate_points)
        /\ x_old = intermediate_points[iter]
        /\ grad_x = Gradient(x_new)
        /\ hess_x = Hessian(x_new)
        /\ lambda_nplus = Max(-Hessian(x_new), 0)
        /\ converged = _check_convergence(x_old, x_new, grad_x, hess_x)

\* convergence is detected on the refreshed values where the values of x_old
\* would have denied it, and the point is in the trace
C16_Witness ==
    /\ pc = "outer"
    /\ iter >= 1
    /\ converged
    /\ x_new = Last(intermediate_points)
    /\ ~_check_convergence(x_old, x_new, Gradient(x_old), Hessian(x_old))

\* C17: whenever the inner search of an outer iteration is running (every
\* solver call and every acceptance test is made there), the stored gradient,
\* Hessian and lambda_nplus are those of x_old, x_old is the last element of
\* the trace, and lambda_nplus = max(0, -lambda_min(H)) >= 0.
C17_DerivativesAreThoseOfXOld ==
    pc = "inner" =>
        /\ x_old = Last(intermediate_points)
        /\ grad_x = Gradient(x_old)
        /\ hess_x = Hessian(x_old)
        /\ lambda_nplus = Max(0, -Hessian(x_old))
        /\ lambda_nplus >= 0

\* one call of the solver has returned a tuple
AuxDone(method) ==
    /\ aux_pc = "done"
    /\ aux_in.method = method

\* C15: in trust_region, when the Cholesky factorization fails and the retry
\* at lambda_nplus + lambda_const (lambda_const doubled) factorizes, the solve
\* continues with that step and flag 0; flag 1 is returned only when the
\* retries are exhausted.
C15_FactorizedRetryContinues ==
    (AuxDone("trust_region") /\ aux_retry = "factorized")
        => (aux_ret.flag = 0 /\ aux_ret.s # <<RInt(0)>>)

\* C18: in trust_region, a flag 0 returned after the Newton loop has made at
\* least one update means that at most maxiter updates were made and that the
\* step meets abs(norm(s) - 2 lambda / M) <= kappa_easy.
C18_FlagZeroAfterLoopMeansConverged ==
    (AuxDone("trust_region") /\ aux_iter >= 1 /\ aux_ret.flag = 0)
        => (aux_iter <= aux_in.maxiter /\ _converged(aux_s, aux_lambduh))

\* H s = lambda s for H = diag(hess_x)
IsEigenvector(sv, lambda) ==
    /\ \E i \in DOMAIN sv : sv[i] # RInt(0)
    /\ \A i \in DOMAIN sv :
          RMul(RInt(aux_in.hess_x[i]), sv[i]) = RMul(RInt(lambda), sv[i])

\* C19: in the stationary branch of monotone_norm, when the smallest
\* eigenvalue of H is negative the returned step is a non-zero eigenvector of
\* that eigenvalue; otherwise the step is the zero projected gradient.
C19_StationaryStepIsMinEigenvector ==
    (AuxDone("monotone_norm") /\ stationary)
        => IF MinOf(aux_in.hess_x) < 0
           THEN IsEigenvector(aux_ret.s, MinOf(aux_in.hess_x))
           ELSE \A i \in DOMAIN aux_ret.s : aux_ret.s[i] = RInt(0)

\* the largest entry of a non-empty sequence of integers
MaxOf(seq) == CHOOSE v \in {seq[i] : i \in DOMAIN seq} :
                  \A i \in DOMAIN seq : v >= seq[i]

\* C20 as stated: the diagnostic of monotone_norm is the ratio of the largest
\* to the smallest eigenvalue of H as eigh gave them, whatever their sign.
C20_DiagnosticIsRawRatio ==
    (AuxDone("monotone_norm") /\ MinOf(aux_in.hess_x) # 0)
        => aux_ret.hess_cond
               = Rat(MaxOf(aux_in.hess_x), MinOf(aux_in.hess_x))

\* an eigenvalue as line 386 leaves it
Clamped(v) == IF v <= 0 THEN Rat(1, ClampInv) ELSE RInt(v)

\* C20: the diagnostic of monotone_norm is the ratio of the largest to the
\* smallest eigenvalue after every non-positive eigenvalue has been replaced
\* by 1e-8, so it is positive and is the ratio of the eigenvalues themselves
\* only for a positive definite H; the negative-eigenvalue test of the
\* stationary branch still sees the smallest eigenvalue as eigh gave it.
C20_DiagnosticIsClampedRatio ==
    AuxDone("monotone_norm")
        => /\ aux_ret.hess_cond
                  = RDiv(Clamped(MaxOf(aux_in.hess_x)),
                         Clamped(MinOf(aux_in.hess_x)))
           /\ aux_ret.hess_cond[1] > 0
           /\ (stationary /\ MinOf(aux_in.hess_x) < 0)
                  => \E i \in DOMAIN aux_ret.s : aux_ret.s[i] # RInt(0)
           /\ (stationary /\ MinOf(aux_in.hess_x) >= 0)
                  => \A i \in DOMAIN aux_ret.s : aux_ret.s[i] = RInt(0)

C20_Witness ==
    /\ AuxDone("monotone_norm")
    /\ aux_in.hess_x = <<-1, 2>>
    /\ stationary
    /\ aux_ret.hess_cond = RInt(2 * ClampInv)
    /\ aux_ret.s # <<RInt(0), RInt(0)>>

\* the constructor has accepted the configuration and cubic_reg() was called
Running == pc \in {"outer", "inner", "raised", "returned"}

\* C22: for every configuration the constructor accepts (L0 given, L given
\* without L0, or neither), once cubic_reg() runs the regularization weight
\* is a defined, strictly positive number: self.L0 and mk are numbers > 0 and
\* no call ends for want of a weight.
C22_WeightIsDefinedAndPositive ==
    Running =>
        /\ L0 # None      \* mk = self.L0 (line 205) is None with it
        /\ Val(L0) > 0
        /\ mk > 0

\* C23: every configuration of callables the constructor accepts can be run:
\* with a weight at hand, no call of cubic_reg() ends by invoking an absent
\* callable, and self.gradient / self.hessian are the finite-difference
\* approximators exactly when the analytic callable was not supplied.
C23_AcceptedCallablesCanBeRun ==
    (Running /\ L0 # None) =>
        /\ ~(pc = "raised" /\ err = "TypeError")
        /\ (runs = 1 /\ pc = "outer" /\ entered = 0) =>
              /\ grad_x = (IF cfg.has_gradient THEN AnalyticGradient(Val(cfg.x0))
                           ELSE approx_grad(Val(cfg.x0)))
              /\ hess_x = (IF cfg.has_hessian THEN AnalyticHessian(Val(cfg.x0))
                           ELSE approx_hess(Val(cfg.x0)))

\* two returns of solve() for the same arguments. scipy's newton is a
\* function of its arguments too, but the model leaves its root open
\* (NewtonRoots), so away from a stationary point the tuples of monotone_norm
\* are compared in what does not depend on the root
SameResult(args, r1, r2) ==
    IF \/ args.method = "trust_region"
       \/ \A i \in DOMAIN args.grad_x : args.grad_x[i] = 0
    THEN r1 = r2
    ELSE (r1.exc = "" /\ r2.exc = "")
            => (r1.flag = r2.flag /\ r1.hess_cond = r2.hess_cond)

\* the call in progress has ended as every earlier call with its arguments
ResultsRepeat ==
    aux_pc \in {"done", "raised"}
        => \A i \in DOMAIN aux_log :
              aux_log[i].args = aux_in
                  => SameResult(aux_in, aux_log[i].ret, aux_ret)

\* a step of solve() leaves what the driver handed over, and the driver's
\* own point, derivatives, lambda_nplus and trace, as they are
SolveLeavesArguments ==
    aux_pc \in {"start", "loop"}
        => UNCHANGED <<aux_in, x_old, grad_x, hess_x, lambda_nplus,
                       intermediate_points>>

====
